---- MODULE Spec2Model ----
(***************************************************************************)
(* Model of packages/core/src/Engine.ts: the frame scheduler (pause,       *)
(* resume, run, update, destroy, _animate), the timing configuration       *)
(* setters, the render pass over the active scene's cameras (_render) and  *)
(* the shader program pool registry, together with the                    *)
(* platform wake-up primitives the scheduler arms (requestAnimationFrame, *)
(* setTimeout) and cancels (cancelAnimationFrame, clearTimeout).          *)
(***************************************************************************)
EXTENDS Integers, Sequences, FiniteSets, Bags, TLC

\* ---------------------------------------------------------------- bounds

\* Largest vSyncCount value the setter is driven with.
MaxVSync == 2
\* Largest number of wake-ups (refresh callbacks plus timers) pending at once.
MaxWakeups == 2
\* Largest shader id handed to _getShaderProgramPool.
MaxShaderId == 3
\* Largest number of ShaderProgramPool instances constructed.
MaxPools == 4
\* Largest number of cameras in the active scene's camera list.
MaxCameras == 3

\* ------------------------------------------------------------- variables

VARIABLES
    \* Engine fields
    vSyncCount,           \* _vSyncCount
    targetFrameRate,      \* _targetFrameRate, in millionths of a frame per second
    targetFrameInterval,  \* _targetFrameInterval, in milliseconds
    isPaused,             \* _isPaused
    vSyncCounter,         \* _vSyncCounter
    animateFn,            \* the value of the _animate field: "fn" or "null"
    sceneManager,         \* _sceneManager: "live" or "null"
    resourceManager,      \* _resourceManager: "live" or "null"
    activeScene,          \* _sceneManager._activeScene: "scene" or "null"
    time,                 \* _time: [live, deltaTime]
    listeners,            \* observers are registered on the event dispatcher
    shaderProgramPools,   \* _shaderProgramPools: sequence of pool instances, 0 = hole
    poolCount,            \* ShaderProgramPool instances constructed so far
    cameras,              \* scene._activeCameras: sequence of [id, priority, enabled, active]
    \* Platform
    rafHeld,              \* the refresh callback request named by _requestId is pending
    rafLoose,             \* pending refresh callback requests that no field names
    rafReady,             \* refresh callbacks of the signal being delivered, not yet run
    timers,               \* bag of armed timers [held, cb, delay]; held: named by _timeoutId
    \* What the handler of the last step did (reset by every other step)
    frameLog,             \* steps of the update() call, in order
    frameDelta,           \* deltaTime values the update() call saw and handed out
    renderLog,            \* events of the _render() call, in order: [ev, cam]
    destroyLog,           \* steps of the destroy() call, in order
    pausedFrame,          \* the wake-up invoked update() while _isPaused
    tornDownWake,         \* the wake-up invoked update() or re-armed on a destroyed engine
    lastGate,             \* the gated frame of a refresh callback: signals since the last one
    restartGate,          \* the refresh callback of a Running engine: which one it was
                          \* since the last frame, resume() or vSyncCount change, and
                          \* whether it ran the frame
    resumedRunning,       \* resume() was called on an engine that was Running
    clockWasReset,        \* resume() reset the Clock
    \* What the handlers did so far
    shutdownFired,        \* "shutdown" notifications fired: "never", "once" or "again"
    sinceFrame,           \* refresh signals delivered since the last gated frame (if kStable)
    kStable,              \* vSyncCount unchanged since the last gated frame
    sinceRestart,         \* _animate calls since the last frame, resume() or vSyncCount change
    firstPool             \* per shader id, the pool created on its first access (0 = none)

engineVars == <<vSyncCount, targetFrameRate, targetFrameInterval, isPaused, vSyncCounter,
                animateFn, sceneManager, resourceManager, activeScene, time, listeners>>
configVars == <<vSyncCount, targetFrameRate, targetFrameInterval>>
ownedVars == <<sceneManager, resourceManager, activeScene, listeners>>
registryVars == <<shaderProgramPools, poolCount, firstPool>>
platformVars == <<rafHeld, rafLoose, rafReady, timers>>
stepObs == <<frameLog, frameDelta, renderLog, destroyLog, pausedFrame, tornDownWake, lastGate,
             restartGate,             resumedRunning, clockWasReset>>
historyObs == <<shutdownFired, sinceFrame, kStable, sinceRestart>>
vars == <<engineVars, registryVars, cameras, platformVars, stepObs, historyObs>>

\* --------------------------------------------------------------- helpers

Max(a, b) == IF a > b THEN a ELSE b

Destroyed == sceneManager = "null"

\* The handles the platform returns are opaque and never reused, so all that
\* matters of one is whether the engine still holds it: a pending wake-up is
\* "held" while the field that received its handle (_requestId, _timeoutId)
\* still names it, and "loose" once the field was overwritten or when the
\* handle was never stored. Only a held wake-up can be cancelled.
RafPendingCount == (IF rafHeld THEN 1 ELSE 0) + rafLoose
WakeupCount == RafPendingCount + rafReady + BagCardinality(timers)
HeldTimers(tms) == {t \in BagToSet(tms) : t.held}

\* --------------------------------------------------------- program constants

InitialVSyncCount == 1
InitialFrameRate == 60
InitialVSyncCounter == 1

\* Values the configuration setters are driven with.
VSyncInputs == (0 - 1)..MaxVSync
FrameRateInputs == {0, 60}
\* Wall-clock gaps between two ticks, in clock units.
ElapsedInputs == {1, 2}

\* A frame rate in millionths of a frame per second, and 1000 / rate in
\* whole milliseconds.
RateUnits(fps) == fps * 1000000
IntervalOf(rate) == 1000000000 \div rate

\* ------------------------------------------------------------------ Clock

\* Time.tick(): deltaTime becomes the wall time elapsed since the last tick.
ClockTick(t, elapsed) == [t EXCEPT !.deltaTime = elapsed]
\* Time.reset(): takes a fresh reference point; deltaTime is not touched.
ClockReset(t) == t

\* ------------------------------------------------ observations left alone

NoDelta == [script |-> 0 - 1, render |-> 0 - 1, clock |-> 0 - 1]
NoGate == [checked |-> FALSE, gap |-> 0, k |-> 0]

\* No update() ran: nothing is logged and the camera list is not sorted.
NoFrame ==
    /\ frameLog' = <<>>
    /\ frameDelta' = NoDelta
    /\ renderLog' = <<>>
    /\ cameras' = cameras
NoDestroy == destroyLog' = <<>>
NoRestartGate == [checked |-> FALSE, nth |-> 0, k |-> 0, ran |-> FALSE]
NoWake ==
    /\ pausedFrame' = FALSE
    /\ tornDownWake' = FALSE
    /\ lastGate' = NoGate
    /\ restartGate' = NoRestartGate
NoResume == resumedRunning' = FALSE /\ clockWasReset' = FALSE

\* ---------------------------------------------------------------- _render

\* Camera priorities the scene's cameras are given.
PriorityInputs == {1, 2, 3}

\* What a camera is given when it is added to the scene.
CameraProps == [priority : PriorityInputs, enabled : BOOLEAN, active : BOOLEAN]

\* The camera list a scene holds after cameras with the properties c[1], c[2],
\* ... were added to it: camera i of the list is the object with id i.
CameraList(c) ==
    [i \in DOMAIN c |-> [id |-> i, priority |-> c[i].priority,
                         enabled |-> c[i].enabled, active |-> c[i].active]]

\* The comparator handed to cameras.sort().
ComparePriority(camera1, camera2) == camera1.priority - camera2.priority

\* The place an unstable sort could pick: ahead of the cameras of equal priority.
InsertPlaceAheadOfEquals(sorted, camera) ==
    Cardinality({i \in 1..Len(sorted) : ComparePriority(sorted[i], camera) < 0})

\* Where a stable sort puts one more camera into an already sorted list:
\* behind every camera the comparator does not order after it.
InsertPlace(sorted, camera) ==
    Cardinality({i \in 1..Len(sorted) : ComparePriority(sorted[i], camera) <= 0})

InsertCamera(sorted, camera) ==
    SubSeq(sorted, 1, InsertPlace(sorted, camera)) \o <<camera>>
    \o SubSeq(sorted, InsertPlace(sorted, camera) + 1, Len(sorted))

\* cameras.sort(comparator): Array.prototype.sort, in place and stable.
RECURSIVE SortCameras(_)
SortCameras(cams) ==
    IF cams = <<>> THEN <<>>
    ELSE InsertCamera(SortCameras(SubSeq(cams, 1, Len(cams) - 1)), cams[Len(cams)])

Event(name, camera) == [ev |-> name, cam |-> camera]

\* The check as it would be without the entity's isActiveInHierarchy.
CameraRendersIfEnabled(camera) == camera.enabled

\* The check a camera has to pass to be rendered.
CameraRenders(camera) == camera.enabled /\ camera.active

\* The loop body as it would be with the scene hooks outside the camera hooks.
CameraEventsHooksOutside(camera) ==
    IF CameraRenders(camera)
    THEN <<Event("preRender", camera.id), Event("beginRender", camera.id),
           Event("cameraRender", camera.id), Event("endRender", camera.id),
           Event("postRender", camera.id)>>
    ELSE <<>>

\* What the loop body of _render() does for one camera.
CameraEvents(camera) ==
    IF CameraRenders(camera)
    THEN <<Event("beginRender", camera.id), Event("preRender", camera.id),
           Event("cameraRender", camera.id), Event("postRender", camera.id),
           Event("endRender", camera.id)>>
    ELSE <<>>

\* The loop of _render() over the sorted cameras.
RECURSIVE CameraLoop(_)
CameraLoop(cams) ==
    IF cams = <<>> THEN <<>>
    ELSE CameraEvents(Head(cams)) \o CameraLoop(Tail(cams))

\* _render() as it would be if it returned at once on an empty camera list.
RenderEventsEarlyOut(sorted) ==
    IF Len(sorted) > 0
    THEN <<Event("rendererOnUpdate", 0), Event("updateShaderData", 0)>>
         \o CameraLoop(sorted) \o <<Event("restPool", 0)>>
    ELSE <<Event("noActiveCamera", 0)>>

\* The events of one _render() call over the camera list as sorted by it.
RenderEvents(sorted) ==
    <<Event("rendererOnUpdate", 0), Event("updateShaderData", 0)>>
    \o (IF Len(sorted) > 0
        THEN CameraLoop(sorted) \o <<Event("restPool", 0)>>
        ELSE <<Event("noActiveCamera", 0)>>)

\* The camera list _render() leaves: sorted only when it is not empty.
CamerasAfterRender(cams) == IF Len(cams) > 0 THEN SortCameras(cams) ELSE cams

\* ----------------------------------------------------------------- update

\* The steps of _render(scene), as seen from update().
RenderSteps == <<"render">>

\* update() as it would be with the destroy sweep run ahead of the scene work.
UpdateStepsSweepFirst(scene) ==
    <<"tick", "resetRenderElementPool", "resetSpriteElementPool", "preTick",
      "componentDestroy">>
    \o (IF scene # "null"
        THEN <<"scriptOnStart", "scriptOnUpdate", "animationUpdate", "scriptOnLateUpdate">>
             \o RenderSteps
        ELSE <<>>)
    \o <<"postTick">>

\* update() as it would be with the destroy sweep inside the scene branch.
UpdateStepsSweepInScene(scene) ==
    <<"tick", "resetRenderElementPool", "resetSpriteElementPool", "preTick">>
    \o (IF scene # "null"
        THEN <<"scriptOnStart", "scriptOnUpdate", "animationUpdate", "scriptOnLateUpdate">>
             \o RenderSteps \o <<"componentDestroy">>
        ELSE <<>>)
    \o <<"postTick">>

\* The steps update() performs, in program order.
UpdateSteps(scene) ==
    <<"tick", "resetRenderElementPool", "resetSpriteElementPool", "preTick">>
    \o (IF scene # "null"
        THEN <<"scriptOnStart", "scriptOnUpdate", "animationUpdate", "scriptOnLateUpdate">>
             \o RenderSteps
        ELSE <<>>)
    \o <<"componentDestroy", "postTick">>

\* The deltaTime local of update(): read from the clock on entry.
CapturedDelta(before, after) == before.deltaTime
\* The deltaTime local of _render(): read from the clock when the pass starts.
RenderDelta(before, after) == after.deltaTime

\* update() dereferences _time first; a released clock makes it throw.
UpdateThrows == ~time.live

\* update(): the state it leaves and what its callbacks were handed.
UpdateEffect ==
    IF UpdateThrows
    THEN /\ time' = time
         /\ NoFrame
    ELSE \E elapsed \in ElapsedInputs :
         /\ time' = ClockTick(time, elapsed)
         /\ frameLog' = UpdateSteps(activeScene)
         /\ cameras' = IF activeScene # "null" THEN CamerasAfterRender(cameras)
                       ELSE cameras
         /\ renderLog' = IF activeScene # "null" THEN RenderEvents(cameras')
                         ELSE <<>>
         /\ frameDelta' = [script |-> IF activeScene # "null"
                                       THEN CapturedDelta(time, time') ELSE 0 - 1,
                           render |-> IF activeScene # "null"
                                       THEN RenderDelta(time, time') ELSE 0 - 1,
                           clock |-> time'.deltaTime]

\* --------------------------------------------------------------- _animate

\* The gate of the refresh-driven branch: _vSyncCounter++ % _vSyncCount === 0.
GateOpen(counter, k) == counter % k = 0

\* this._requestId = requestAnimationFrame(...): the request is held, and the
\* one held before, if still pending, is loose from now on.
LooseAfterRequest(held, loose) == IF held THEN loose + 1 ELSE loose

\* this._timeoutId = setTimeout(cb, delay), likewise.
LoosenTimers(tms) ==
    (tms (-) SetToBag(HeldTimers(tms)))
    (+) SetToBag({[t EXCEPT !.held = FALSE] : t \in HeldTimers(tms)})
\* setTimeout as it would be with the interval the engine was constructed with.
ArmTimerInitialDelay(tms, cb, delay) ==
    LoosenTimers(tms) (+) SetToBag({[held |-> TRUE, cb |-> cb,
                                     delay |-> IntervalOf(RateUnits(InitialFrameRate))]})

ArmTimer(tms, cb, delay) ==
    LoosenTimers(tms) (+) SetToBag({[held |-> TRUE, cb |-> cb, delay |-> delay]})

\* _animate, run as the callback of a wake-up. tms are the timers still armed
\* once the wake-up that fired is taken out.
Animate(viaSignal, tms) ==
    IF vSyncCount > 0
    THEN IF animateFn = "null"
         THEN \* requestAnimationFrame(null) throws a TypeError
              /\ timers' = tms
              /\ NoFrame
              /\ NoWake
              /\ UNCHANGED <<rafHeld, rafLoose, vSyncCounter, time, sinceFrame, kStable,
                             sinceRestart>>
         ELSE /\ rafLoose' = LooseAfterRequest(rafHeld, rafLoose)
              /\ rafHeld' = TRUE
              /\ timers' = tms
              /\ tornDownWake' = Destroyed
              /\ restartGate' = IF viaSignal /\ ~isPaused
                                THEN [checked |-> TRUE, nth |-> sinceRestart + 1,
                                      k |-> vSyncCount,
                                      ran |-> GateOpen(vSyncCounter, vSyncCount)]
                                ELSE NoRestartGate
              /\ IF GateOpen(vSyncCounter, vSyncCount)
                 THEN /\ UpdateEffect
                      /\ sinceRestart' = 0
                      /\ vSyncCounter' = IF UpdateThrows THEN vSyncCounter + 1
                                         ELSE InitialVSyncCounter
                      /\ pausedFrame' = isPaused
                      /\ kStable' = TRUE
                      /\ sinceFrame' = 0
                      /\ lastGate' = IF viaSignal /\ kStable /\ ~isPaused
                                     THEN [checked |-> TRUE, gap |-> sinceFrame,
                                           k |-> vSyncCount]
                                     ELSE NoGate
                 ELSE /\ vSyncCounter' = vSyncCounter + 1
                      /\ sinceRestart' = sinceRestart + 1
                      /\ NoFrame
                      /\ pausedFrame' = FALSE
                      /\ lastGate' = NoGate
                      /\ UNCHANGED <<time, sinceFrame, kStable>>
    ELSE /\ timers' = ArmTimer(tms, animateFn, targetFrameInterval)
         /\ UpdateEffect
         /\ pausedFrame' = isPaused
         /\ tornDownWake' = Destroyed
         /\ lastGate' = NoGate
         /\ restartGate' = NoRestartGate
         /\ sinceRestart' = 0
         /\ UNCHANGED <<rafHeld, rafLoose, vSyncCounter, sinceFrame, kStable>>

\* ---------------------------------------------------------- configuration

\* set vSyncCount(value): Math.max(0, Math.floor(value)).
ClampVSync(value) == Max(0, value)

SetVSyncCount(value) ==
    /\ rafReady = 0
    /\ vSyncCount' = ClampVSync(value)
    /\ kStable' = (kStable /\ vSyncCount' = vSyncCount)
    /\ sinceFrame' = IF kStable' THEN sinceFrame ELSE 0
    /\ sinceRestart' = IF vSyncCount' = vSyncCount THEN sinceRestart ELSE 0
    /\ NoFrame /\ NoDestroy /\ NoWake /\ NoResume
    /\ UNCHANGED <<targetFrameRate, targetFrameInterval, isPaused, vSyncCounter, animateFn,
                   time, ownedVars, registryVars, platformVars, shutdownFired>>

\* set targetFrameRate(value): Math.max(0.000001, value), interval 1000 / value.
ClampFrameRate(fps) == Max(1, RateUnits(fps))

SetTargetFrameRate(fps) ==
    /\ rafReady = 0
    /\ targetFrameRate' = ClampFrameRate(fps)
    /\ targetFrameInterval' = IntervalOf(targetFrameRate')
    /\ NoFrame /\ NoDestroy /\ NoWake /\ NoResume
    /\ UNCHANGED <<vSyncCount, isPaused, vSyncCounter, animateFn,
                   time, ownedVars, registryVars, platformVars, historyObs>>

\* sceneManager.activeScene = scene, by the embedding application. On a
\* destroyed engine the sceneManager getter yields null and the store throws.
SetActiveScene(scene) ==
    /\ rafReady = 0
    /\ activeScene' = IF Destroyed THEN activeScene ELSE scene
    /\ NoFrame /\ NoDestroy /\ NoWake /\ NoResume
    /\ UNCHANGED <<configVars, isPaused, vSyncCounter, animateFn,
                   time, sceneManager, resourceManager, listeners, registryVars,
                   platformVars, historyObs>>

\* ----------------------------------------------------------- pause, resume

\* cancelAnimationFrame(_requestId): the held request, if any, is dropped.
CancelRequest(held) == FALSE
\* clearTimeout(_timeoutId): the held timer, if any, is dropped.
CancelTimeout(tms) == tms (-) SetToBag(HeldTimers(tms))

\* pause().
Pause ==
    /\ rafReady = 0
    /\ isPaused' = TRUE
    /\ rafHeld' = CancelRequest(rafHeld)
    /\ timers' = CancelTimeout(timers)
    /\ NoFrame /\ NoDestroy /\ NoWake /\ NoResume
    /\ UNCHANGED <<configVars, vSyncCounter, animateFn, time, ownedVars, registryVars,
                   rafLoose, rafReady, historyObs>>

\* resume() as it would be without its early return.
ResumeNeverReturnsEarly == FALSE

\* The early return of resume().
ResumeReturnsEarly == ~isPaused

\* requestAnimationFrame(this._animate) with the handle dropped: one more
\* loose request.
LooseAfterResume(loose) == loose + 1

\* resume(), shared by resume() and run(). Past the early return it clears
\* _isPaused, resets the clock (a released clock throws) and requests a
\* refresh callback for _animate (a released callback throws).
ResumeBody ==
    /\ rafReady = 0
    /\ (~ResumeReturnsEarly /\ time.live /\ animateFn # "null") => WakeupCount < MaxWakeups
    /\ resumedRunning' = ~isPaused
    /\ IF ResumeReturnsEarly
       THEN /\ clockWasReset' = FALSE
            /\ UNCHANGED <<isPaused, time, rafLoose, sinceRestart>>
       ELSE /\ isPaused' = FALSE
            /\ IF ~time.live
               THEN /\ clockWasReset' = FALSE
                    /\ UNCHANGED <<time, rafLoose, sinceRestart>>
               ELSE /\ time' = ClockReset(time)
                    /\ clockWasReset' = TRUE
                    /\ sinceRestart' = 0
                    /\ rafLoose' = IF animateFn = "null" THEN rafLoose
                                   ELSE LooseAfterResume(rafLoose)
    /\ NoFrame /\ NoDestroy /\ NoWake
    /\ UNCHANGED <<configVars, vSyncCounter, animateFn, ownedVars, registryVars, rafHeld,
                   rafReady, timers, shutdownFired, sinceFrame, kStable>>

Resume == ResumeBody

\* run(): the pre-load hook and the "run" notification call out of the engine
\* and leave its fields alone; what run() does to the engine is resume().
Run == ResumeBody

\* ------------------------------------------------------------------ update

\* update() called by the application.
Update ==
    /\ rafReady = 0
    /\ UpdateEffect
    /\ NoDestroy /\ NoWake /\ NoResume
    /\ UNCHANGED <<configVars, isPaused, vSyncCounter, animateFn,
                   ownedVars, registryVars, platformVars, historyObs>>

\* ----------------------------------------------------------------- destroy

\* destroy() does nothing once _sceneManager is null.
DestroyGuard == sceneManager # "null"

\* destroy() as it would be with the references released ahead of the sweep.
DestroyStepsReleaseFirst(scene) ==
    <<"shutdownEvent", "shutdownHook", "pause", "clearAnimate">>
    \o (IF scene = "null" THEN <<"throw">>
        ELSE <<"sceneDestroy", "resourceGc", "releaseSceneManager",
               "releaseResourceManager", "componentDestroy", "releaseCanvas",
               "releaseTime", "removeAllEventListeners">>)

\* The steps destroy() performs, in program order; a null active scene makes
\* _activeScene.destroy() throw and ends the call there.
DestroySteps(scene) ==
    <<"shutdownEvent", "shutdownHook", "pause", "clearAnimate">>
    \o (IF scene = "null" THEN <<"throw">>
        ELSE <<"sceneDestroy", "resourceGc", "componentDestroy", "releaseSceneManager",
               "releaseResourceManager", "releaseCanvas", "releaseTime",
               "removeAllEventListeners">>)

\* One more "shutdown" notification (and shutdown hook call).
FireShutdown(fired) == IF fired = "never" THEN "once" ELSE "again"

Destroy ==
    /\ rafReady = 0
    /\ IF ~DestroyGuard
       THEN /\ destroyLog' = <<"return">>
            /\ UNCHANGED <<isPaused, rafHeld, timers, animateFn, time, ownedVars,
                           shutdownFired>>
       ELSE /\ destroyLog' = DestroySteps(activeScene)
            /\ shutdownFired' = FireShutdown(shutdownFired)
            /\ isPaused' = TRUE
            /\ rafHeld' = CancelRequest(rafHeld)
            /\ timers' = CancelTimeout(timers)
            /\ animateFn' = "null"
            /\ IF activeScene = "null"
               THEN UNCHANGED <<time, ownedVars>>
               ELSE /\ sceneManager' = "null"
                    /\ resourceManager' = "null"
                    /\ activeScene' = "null"
                    /\ time' = [live |-> FALSE, deltaTime |-> 0]
                    /\ listeners' = FALSE
    /\ NoFrame /\ NoWake /\ NoResume
    /\ UNCHANGED <<configVars, vSyncCounter, registryVars, rafLoose, rafReady,
                   sinceFrame, kStable, sinceRestart>>

\* --------------------------------------------------------------- platform

\* The display refreshes: every refresh callback requested so far is due.
RefreshSignal ==
    /\ rafReady = 0
    /\ RafPendingCount > 0
    /\ rafReady' = RafPendingCount
    /\ rafHeld' = FALSE
    /\ rafLoose' = 0
    /\ sinceFrame' = IF kStable THEN sinceFrame + 1 ELSE 0
    /\ NoFrame /\ NoDestroy /\ NoWake /\ NoResume
    /\ UNCHANGED <<engineVars, registryVars, timers, shutdownFired, kStable, sinceRestart>>

\* One due refresh callback runs _animate.
RefreshCallback ==
    /\ rafReady > 0
    /\ rafReady' = rafReady - 1
    /\ Animate(TRUE, timers)
    /\ NoDestroy /\ NoResume
    /\ UNCHANGED <<configVars, isPaused, animateFn, ownedVars, registryVars, shutdownFired>>

\* An armed timer fires: _animate, or nothing for a timer armed with null.
TimerFires ==
    \E t \in BagToSet(timers) :
        /\ rafReady = 0
        /\ IF t.cb = "null"
           THEN /\ timers' = timers (-) SetToBag({t})
                /\ NoFrame /\ NoWake
                /\ UNCHANGED <<rafHeld, rafLoose, vSyncCounter, time, sinceFrame, kStable,
                               sinceRestart>>
           ELSE Animate(FALSE, timers (-) SetToBag({t}))
        /\ NoDestroy /\ NoResume
        /\ UNCHANGED <<configVars, isPaused, animateFn, ownedVars, registryVars, rafReady,
                       shutdownFired>>

\* -------------------------------------------------- shader program pools

\* shaderProgramPools[index]: undefined past the end and in a hole.
PoolAt(pools, index) == IF index < Len(pools) THEN pools[index + 1] ELSE 0

\* The length the array is cut to before the new pool is stored:
\* if (length < shaderProgramPools.length) shaderProgramPools.length = length.
TruncatedLength(len, index) == IF index + 1 < len THEN index + 1 ELSE len

\* shaderProgramPools[index] = pool, growing the array with holes when needed.
StorePool(pools, index, pool) ==
    [i \in 1..Max(Len(pools), index + 1) |->
        IF i = index + 1 THEN pool ELSE IF i <= Len(pools) THEN pools[i] ELSE 0]

\* _getShaderProgramPool(shader), shader._shaderId = index.
GetShaderProgramPool(index) ==
    /\ PoolAt(shaderProgramPools, index) = 0 => poolCount < MaxPools
    /\ IF PoolAt(shaderProgramPools, index) # 0
       THEN UNCHANGED <<shaderProgramPools, poolCount>>
       ELSE /\ poolCount' = poolCount + 1
            /\ shaderProgramPools' =
                   StorePool(SubSeq(shaderProgramPools, 1,
                                    TruncatedLength(Len(shaderProgramPools), index)),
                             index, poolCount + 1)
    /\ firstPool' = IF firstPool[index] = 0
                    THEN [firstPool EXCEPT ![index] = PoolAt(shaderProgramPools', index)]
                    ELSE firstPool
    /\ UNCHANGED <<engineVars, cameras, platformVars, stepObs, historyObs>>

\* ---------------------------------------------------------- specification

\* The engine as its constructor leaves it.
InitEngine ==
    /\ vSyncCount = InitialVSyncCount
    /\ targetFrameRate = RateUnits(InitialFrameRate)
    /\ targetFrameInterval = IntervalOf(RateUnits(InitialFrameRate))
    /\ isPaused = TRUE
    /\ vSyncCounter = InitialVSyncCounter
    /\ animateFn = "fn"
    /\ sceneManager = "live"
    /\ resourceManager = "live"
    /\ activeScene = "scene"
    /\ time = [live |-> TRUE, deltaTime |-> 0]
    /\ listeners = TRUE
    /\ shaderProgramPools = <<>>
    /\ poolCount = 0
    /\ firstPool = [i \in 0..MaxShaderId |-> 0]
    /\ rafHeld = FALSE
    /\ rafLoose = 0
    /\ rafReady = 0
    /\ timers = EmptyBag
    /\ frameLog = <<>>
    /\ frameDelta = NoDelta
    /\ renderLog = <<>>
    /\ destroyLog = <<>>
    /\ pausedFrame = FALSE
    /\ tornDownWake = FALSE
    /\ lastGate = NoGate
    /\ restartGate = NoRestartGate
    /\ resumedRunning = FALSE
    /\ clockWasReset = FALSE
    /\ shutdownFired = "never"
    /\ sinceFrame = 0
    /\ kStable = TRUE
    /\ sinceRestart = 0

\* The default scene the constructor makes active has no camera.
Init == InitEngine /\ cameras = <<>>

\* The engine over a scene that was given cameras.
InitRender ==
    /\ InitEngine
    /\ \E n \in 0..MaxCameras : \E c \in [1..n -> CameraProps] : cameras = CameraList(c)

\* The frame scheduler and its life cycle.
Next ==
    \/ \E value \in VSyncInputs : SetVSyncCount(value)
    \/ \E scene \in {"scene", "null"} : SetActiveScene(scene)
    \/ Pause
    \/ Resume
    \/ Run
    \/ Update
    \/ Destroy
    \/ RefreshSignal
    \/ RefreshCallback
    \/ TimerFires

Spec == Init /\ [][Next]_vars

\* The shader program pool registry.
NextRegistry == \E index \in 0..MaxShaderId : GetShaderProgramPool(index)

SpecRegistry == Init /\ [][NextRegistry]_vars

\* The pacing of the scheduler under changes of both timing settings.
NextPacing ==
    \/ \E value \in VSyncInputs : SetVSyncCount(value)
    \/ \E fps \in FrameRateInputs : SetTargetFrameRate(fps)
    \/ Pause
    \/ Resume
    \/ RefreshSignal
    \/ RefreshCallback
    \/ TimerFires

SpecPacing == Init /\ [][NextPacing]_vars

\* Frames over a scene with cameras, driven by manual update() calls.
NextRender == Update

SpecRender == InitRender /\ [][NextRender]_vars

\* ------------------------------------------------------------------ claims

IsPrefix(a, b) == Len(a) <= Len(b) /\ a = SubSeq(b, 1, Len(a))
Last(q) == q[Len(q)]

\* C1: once pause() was called and resume() was not called after it, no
\* wake-up of the engine stays pending and no wake-up invokes update().
C1_PauseStopsScheduler == isPaused => (WakeupCount = 0 /\ ~pausedFrame)

\* C2: once destroy() has returned, no pending refresh signal or timer
\* invokes update() or re-arms a wake-up on the torn-down engine.
C2_NoWakeAfterDestroy == Destroyed => ~tornDownWake

\* C3: a shader id that was accessed before still maps to the pool created
\* on its first access; no populated entry is discarded or replaced.
C3_PopulatedPoolsStay ==
    \A i \in 0..MaxShaderId :
        firstPool[i] # 0 => PoolAt(shaderProgramPools, i) = firstPool[i]

\* C4: while the engine is Running with vSyncCount = k >= 1 (k unchanged since
\* the last frame), a refresh signal executes a logical frame exactly when it
\* is the k-th signal since the last frame: never earlier, never twice in one
\* signal, and never later.
C4_FrameEveryKthSignal ==
    /\ lastGate.checked => lastGate.gap = lastGate.k
    /\ (kStable /\ ~isPaused /\ animateFn = "fn" /\ vSyncCount >= 1 /\ rafReady = 0)
           => sinceFrame < vSyncCount

\* C5: the steps of one update() call come in the fixed order tick, pool
\* resets, pre-tick hooks, then (with an active scene) script start, script
\* update, animation update, script late-update, render pass, then the
\* component-destroy sweep, then post-tick hooks, none repeated.
FrameOrder ==
    <<"tick", "resetRenderElementPool", "resetSpriteElementPool", "preTick",
      "scriptOnStart", "scriptOnUpdate", "animationUpdate", "scriptOnLateUpdate",
      "render", "componentDestroy", "postTick">>
SceneSteps ==
    {"scriptOnStart", "scriptOnUpdate", "animationUpdate", "scriptOnLateUpdate", "render"}
InFrame(step) == activeScene # "null" \/ step \notin SceneSteps
C5_FrameStepOrder == frameLog # <<>> => frameLog = SelectSeq(FrameOrder, InFrame)
C5_Witness == frameLog # <<>> /\ activeScene # "null" /\ "render" \in {frameLog[i] : i \in 1..Len(frameLog)}

\* C6: the deltaTime handed to the script update, animation update and
\* late-update callbacks of a frame is the clock's deltaTime after the tick
\* that opened the frame, the value the render pass reads.
C6_CallbacksGetTickedDelta ==
    frameDelta.script # 0 - 1 =>
        (frameDelta.script = frameDelta.clock /\ frameDelta.script = frameDelta.render)

\* C7: whatever the sequence of operations, the "shutdown" notification and
\* the shutdown hooks fire at most once: no destroy() call after the first
\* gets past the already-destroyed check, so none of them can throw.
C7_ShutdownFiresOnce == shutdownFired # "again"

\* C8: resume() on an engine that is already Running changes nothing: the
\* engine stays Running, the clock is not reset again and no wake-up is added;
\* and the resume() that started the run requested exactly one wake-up.
C8_ResumeIdempotent ==
    [][/\ resumedRunning' =>
              (~isPaused' /\ ~clockWasReset' /\ UNCHANGED <<engineVars, platformVars>>)
       /\ (clockWasReset' /\ animateFn = "fn") =>
              (~isPaused' /\ WakeupCount' = WakeupCount + 1)]_vars
C8_Witness == resumedRunning /\ ~isPaused /\ animateFn = "fn" /\ WakeupCount = 1

\* C9: once destroy() has completed, the engine never becomes Running again
\* (isPaused stays true) and no step of a logical frame is executed.
C9_DestroyedStaysPaused == Destroyed => (isPaused /\ frameLog = <<>>)

\* C10: a destroy() call performs its teardown steps in the order shutdown
\* notification, shutdown hooks, pause(), scene destroy, component-destroy
\* sweep, release of the scene manager and of the resource manager, and
\* clears the observer registrations last.
TeardownOrder ==
    <<"shutdownEvent", "shutdownHook", "pause", "sceneDestroy", "componentDestroy",
      "releaseSceneManager", "releaseResourceManager", "removeAllEventListeners">>
InTeardownOrder(step) == step \in {TeardownOrder[i] : i \in 1..Len(TeardownOrder)}
C10_TeardownOrder ==
    destroyLog \notin {<<>>, <<"return">>} =>
        /\ IsPrefix(SelectSeq(destroyLog, InTeardownOrder), TeardownOrder)
        /\ Last(destroyLog) # "throw" =>
               /\ SelectSeq(destroyLog, InTeardownOrder) = TeardownOrder
               /\ Last(destroyLog) = "removeAllEventListeners"
C10_Witness == Destroyed /\ Len(destroyLog) > 1 /\ "componentDestroy" \in {destroyLog[i] : i \in 1..Len(destroyLog)}

\* Helpers over a render pass.
CameraEventNames == <<"beginRender", "preRender", "cameraRender", "postRender", "endRender">>
Count(log, e) == Cardinality({i \in 1..Len(log) : log[i] = e})
IsCameraRender(e) == e.ev = "cameraRender"
RenderedIds(log) == [i \in 1..Len(SelectSeq(log, IsCameraRender)) |->
                        SelectSeq(log, IsCameraRender)[i].cam]
PlaceOf(cams, id) == CHOOSE i \in 1..Len(cams) : cams[i].id = id
CameraOf(cams, id) == cams[PlaceOf(cams, id)]

\* C11: in a render pass a camera whose enabled flag is false or whose entity
\* is not active in hierarchy gets no begin-render, pre-render, render,
\* post-render or end-render event; a camera with both flags true gets each
\* of the five exactly once.
C11_OnlyEnabledActiveCamerasRender ==
    renderLog # <<>> =>
        \A i \in 1..Len(cameras) : \A j \in 1..Len(CameraEventNames) :
            Count(renderLog, Event(CameraEventNames[j], cameras[i].id))
                = IF cameras[i].enabled /\ cameras[i].active THEN 1 ELSE 0
C11_Witness ==
    /\ renderLog # <<>>
    /\ \E i \in 1..Len(cameras) : cameras[i].enabled /\ cameras[i].active
    /\ \E i \in 1..Len(cameras) : cameras[i].enabled /\ ~cameras[i].active
    /\ \E i \in 1..Len(cameras) : ~cameras[i].enabled /\ cameras[i].active

\* C12: a render pass leaves the same cameras ordered by non-decreasing
\* priority and renders them in that order; cameras of equal priority keep
\* the relative order they had before the pass, so a pass over a list that is
\* already sorted leaves it as it is.
C12_PriorityOrderStable ==
    [][renderLog' # <<>> =>
        /\ Len(cameras') = Len(cameras)
        /\ {cameras'[i] : i \in 1..Len(cameras')} = {cameras[i] : i \in 1..Len(cameras)}
        /\ \A i, j \in 1..Len(cameras') :
               i < j => cameras'[i].priority <= cameras'[j].priority
        /\ \A i, j \in 1..Len(cameras) :
               (i < j /\ cameras[i].priority = cameras[j].priority)
                   => PlaceOf(cameras', cameras[i].id) < PlaceOf(cameras', cameras[j].id)
        /\ \A i, j \in 1..Len(RenderedIds(renderLog')) :
               i < j => PlaceOf(cameras', RenderedIds(renderLog')[i])
                            < PlaceOf(cameras', RenderedIds(renderLog')[j])]_vars
C12_Witness ==
    /\ Len(RenderedIds(renderLog)) = 3
    /\ \E i \in 1..Len(cameras) : cameras[i].id # i
    /\ \E i, j \in 1..Len(cameras) : i # j /\ cameras[i].priority = cameras[j].priority

\* C13: a frame executed while the active scene is null ticks the clock,
\* resets both pools, invokes the pre-tick hooks, runs the component-destroy
\* sweep and invokes the post-tick hooks, and performs no script callback and
\* no render pass.
C13_NullSceneFrame ==
    (frameLog # <<>> /\ activeScene = "null") =>
        /\ frameLog = <<"tick", "resetRenderElementPool", "resetSpriteElementPool",
                        "preTick", "componentDestroy", "postTick">>
        /\ renderLog = <<>>
        /\ frameDelta.script = 0 - 1
        /\ frameDelta.clock = time.deltaTime
C13_Witness == frameLog # <<>> /\ activeScene = "null" /\ time.deltaTime = 2

\* C14: while the engine is Running (destroy() was not called on it) with
\* vSyncCount = 0, a timer firing executes one logical frame and arms exactly one next timer, whose delay is
\* 1000/targetFrameRate as it is at that moment, and requests no refresh
\* callback; a change of targetFrameRate recomputes the interval and leaves
\* the timers that are armed as they are.
HeldTimersWithDelay(tms, delay) == {t \in HeldTimers(tms) : t.delay = delay}
C14_TimerPacing ==
    [][/\ (~isPaused /\ animateFn = "fn" /\ vSyncCount = 0 /\ TimerFires) =>
              /\ frameLog' # <<>>
              /\ BagCardinality(timers') = BagCardinality(timers)
              /\ Cardinality(HeldTimers(timers')) = 1
              /\ HeldTimersWithDelay(timers', IntervalOf(targetFrameRate)) = HeldTimers(timers')
              /\ \A t \in HeldTimers(timers') : CopiesIn(t, timers') = 1
              /\ RafPendingCount' = RafPendingCount
       /\ targetFrameRate' # targetFrameRate =>
              /\ timers' = timers
              /\ targetFrameInterval' = IntervalOf(targetFrameRate')]_vars
C14_Witness ==
    /\ ~isPaused /\ ~Destroyed /\ vSyncCount = 0 /\ animateFn = "fn"
    /\ \E t \in HeldTimers(timers) :
           /\ t.delay # targetFrameInterval
           /\ t.delay # IntervalOf(RateUnits(InitialFrameRate))

\* C15: while vSyncCount is and stays 0, no step of the engine requests a
\* refresh-signal callback: resume() and every wake-up schedule by timer only.
C15_NoRefreshRequestInTimerMode ==
    [][(vSyncCount = 0 /\ vSyncCount' = 0) => RafPendingCount' <= RafPendingCount]_vars

\* C16: a render pass starts with the renderer-update callbacks and then the
\* scene's shader-data update, each once; the camera events that follow come
\* in whole blocks begin-render, pre-render, camera render, post-render,
\* end-render of one camera; with a non-empty camera list the pass ends with
\* the one pool trim (restPool), after the last block.
RenderBody(log) == SubSeq(log, 3, Len(log) - 1)
C16_RenderPassOrder ==
    renderLog # <<>> =>
        /\ Len(renderLog) >= 3
        /\ renderLog[1] = Event("rendererOnUpdate", 0)
        /\ renderLog[2] = Event("updateShaderData", 0)
        /\ renderLog[Len(renderLog)] =
               IF Len(cameras) > 0 THEN Event("restPool", 0) ELSE Event("noActiveCamera", 0)
        /\ Len(RenderBody(renderLog)) % 5 = 0
        /\ \A b \in 0..(Len(RenderBody(renderLog)) \div 5 - 1) : \A j \in 1..5 :
               /\ RenderBody(renderLog)[5 * b + 1].cam # 0
               /\ RenderBody(renderLog)[5 * b + j] =
                      Event(CameraEventNames[j], RenderBody(renderLog)[5 * b + 1].cam)
C16_Witness ==
    /\ Len(RenderedIds(renderLog)) >= 2
    /\ \E i \in 1..Len(cameras) : ~CameraRenders(cameras[i])

\* C17: a frame over an active scene with no camera fires no camera event,
\* updates the scene's shader data once and goes on to the component-destroy
\* sweep and the post-tick hooks.
C17_NoCameraFrame ==
    (frameLog # <<>> /\ activeScene # "null" /\ Len(cameras) = 0) =>
        /\ \A i \in 1..Len(renderLog) : \A j \in 1..Len(CameraEventNames) :
               renderLog[i].ev # CameraEventNames[j]
        /\ Count(renderLog, Event("updateShaderData", 0)) = 1
        /\ Len(frameLog) >= 3
        /\ SubSeq(frameLog, Len(frameLog) - 2, Len(frameLog))
               = <<"render", "componentDestroy", "postTick">>
C17_Witness == frameLog # <<>> /\ activeScene # "null" /\ Len(cameras) = 0 /\ renderLog # <<>>

\* C18: at most one wake-up (refresh callback or timer) of the engine is
\* pending in every reachable state.
C18_SingleWakeup == WakeupCount <= 1

\* C19: the count of gated refresh signals starts afresh at resume() and at
\* a change of vSyncCount: a refresh callback of the Running engine executes
\* the logical frame exactly when it is the k-th callback (k = vSyncCount)
\* since the last frame, resume() or vSyncCount change.
C19_CounterRestarts ==
    restartGate.checked => (restartGate.ran <=> restartGate.nth = restartGate.k)

\* C20: a destroy() call that gets past the already-destroyed check completes
\* the teardown, also when the active scene is null: it does not throw and
\* leaves the engine Destroyed.
C20_DestroyCompletes ==
    destroyLog \notin {<<>>, <<"return">>} =>
        (Last(destroyLog) # "throw" /\ Destroyed)

====
